---- MODULE Spec2Model ----
(***************************************************************************)
(* node-resolver: the schema-derived type registry (NewResolver), the      *)
(* serve command around it, and the request-time resolvers (node,          *)
(* _entities) that read the registry.                                      *)
(*                                                                         *)
(* Strings are TLA+ strings; TLC evaluates Len, SubSeq and \o on them, so  *)
(* quoting, trimming, prefix extraction and error messages are computed    *)
(* character by character as the Go code computes them.                    *)
(***************************************************************************)
EXTENDS Integers, Sequences, FiniteSets, TLC

VARIABLES
    rawSchema,   \* the schema text handed to NewResolver, as the parser sees it
    pc,          \* position of serve() / NewResolver()
    scanIdx,     \* number of definitions of schemaDoc the scan loop has consumed
    r,           \* the Resolver object NewResolver allocates and fills
    ret,         \* what NewResolver returned: (resolver pointer non-nil?, error)
    registered,  \* srv.AddHandler(r) has run
    reqs         \* in-flight requests, one slot per concurrent request

vars == <<rawSchema, pc, scanIdx, r, ret, registered, reqs>>

(***************************************************************************)
(* Bounds of the model.                                                    *)
(***************************************************************************)
MaxDefs == 2        \* definitions per schema document in the runs of the build alone
MaxFields == 2      \* aliased node(...) fields per request
MaxReps == 2        \* representations per _entities batch
MaxReqs == 2        \* concurrent requests in the concurrency runs

(***************************************************************************)
(* String helpers (strings.Trim, strings.Contains, strings.SplitN).        *)
(***************************************************************************)
QUOTE == "\""

RECURSIVE TrimLeft(_, _)
TrimLeft(s, c) ==
    IF Len(s) > 0 /\ SubSeq(s, 1, 1) = c THEN TrimLeft(SubSeq(s, 2, Len(s)), c) ELSE s

RECURSIVE TrimRight(_, _)
TrimRight(s, c) ==
    IF Len(s) > 0 /\ SubSeq(s, Len(s), Len(s)) = c
    THEN TrimRight(SubSeq(s, 1, Len(s) - 1), c) ELSE s

\* strings.Trim(s, c) for a one-character cutset
Trim(s, c) == TrimRight(TrimLeft(s, c), c)

\* strings.Contains
Contains(s, sub) ==
    \E i \in 1..(Len(s) - Len(sub) + 1) : SubSeq(s, i, i + Len(sub) - 1) = sub

\* position of the first delimiter in s, 0 when there is none
IndexOf(s, c) ==
    IF \E i \in 1..Len(s) : SubSeq(s, i, i) = c
    THEN CHOOSE i \in 1..Len(s) :
            /\ SubSeq(s, i, i) = c
            /\ \A j \in 1..(i - 1) : SubSeq(s, j, j) # c
    ELSE 0

\* ast.Value.String() of a string literal: the text with its quotes
ValueString(raw) == QUOTE \o raw \o QUOTE

(***************************************************************************)
(* The schema document: what parser.ParseSchemas yields for the raw text.  *)
(* A definition carries its name, the interfaces it implements, and its    *)
(* @prefixedID directive (absent, or present with one argument).           *)
(***************************************************************************)
TypeNames == {"Server", "User"}
InterfaceLists == {<<>>, <<"Node">>, <<"Actor">>, <<"Node", "Actor">>}
PrefixValues == {"testsrv", "testusr"}

\* the @prefixedID directive of a definition: none, or one (argument, value)
DirectiveForms ==
    {[present |-> FALSE, argName |-> "", argValue |-> ""]}
    \cup {[present |-> TRUE, argName |-> "NotmyPrefix", argValue |-> "testsrv"]}
    \cup {[present |-> TRUE, argName |-> "prefix", argValue |-> v] : v \in PrefixValues}

Definitions ==
    {[name |-> n, interfaces |-> il, prefixedID |-> d] :
        n \in TypeNames, il \in InterfaceLists, d \in DirectiveForms}

\* the definitions used in the runs that go on to serve requests: every one
\* implements something and declares the prefix that goes with its name
PrefixOfName(n) == IF n = "Server" THEN "testsrv" ELSE "testusr"

ServeDefinitions ==
    {d \in Definitions :
        /\ d.interfaces # <<>>
        /\ d.prefixedID.present
        /\ d.prefixedID.argName = "prefix"
        /\ d.prefixedID.argValue = PrefixOfName(d.name)}

SeqsUpTo(S, n) == UNION {[1..k -> S] : k \in 0..n}

\* rawSchema values: text the parser rejects, or a parsed document
Unparseable == [parses |-> FALSE, defs |-> <<>>]
Documents(S, n) == {[parses |-> TRUE, defs |-> ds] : ds \in SeqsUpTo(S, n)}

(***************************************************************************)
(* Maps (Go map[string]T): functions with a finite string domain.          *)
(***************************************************************************)
EmptyMap == [k \in {} |-> k]
\* a put that leaves an existing entry alone
MapPutKeepingFirst(m, k, v) ==
    [x \in (DOMAIN m) \cup {k} |-> IF x \in DOMAIN m THEN m[x] ELSE v]

\* m[k] = v
MapPut(m, k, v) == [x \in (DOMAIN m) \cup {k} |-> IF x = k THEN v ELSE m[x]]
MapValues(m) == {m[k] : k \in DOMAIN m}

(***************************************************************************)
(* Errors.                                                                 *)
(***************************************************************************)
NoError == ""
ErrParse == "input: syntax error"
ErrNoValidTypes == "schema has no valid objet types"
ErrMissingNode == "interface for Node missing from schema"
ErrDuplicateType(n) ==
    "Schema must contain unique named types but contains multiple types named \""
        \o n \o "\"."
ErrUnknownPrefix == "invalid id; unknown prefix"

(***************************************************************************)
(* Descriptors.                                                            *)
(***************************************************************************)
\* graphql.NewInterface(... Name: name ...): every call allocates a descriptor;
\* addr is the identity of the allocation (the Go pointer)
graphInterfaceFor(name, addr) == [name |-> name, addr |-> addr]

\* graphql.NewObject(... Name: name, IsTypeOf closes over prefix, Interfaces ...)
graphTypeFor(name, prefix, interfaces) ==
    [name |-> name, prefix |-> prefix, interfaces |-> interfaces]

\* the Resolver struct as allocated at the top of NewResolver
NewResolverStruct ==
    [schemaDoc |-> <<>>,
     prefixMap |-> EmptyMap,
     interfaceMap |-> EmptyMap,
     entities |-> <<>>,                      \* nil, or <<the union>>
     handlerSchema |-> [compiled |-> FALSE, possibleTypes |-> {}]]

(***************************************************************************)
(* NewResolver: the scan of the document's definitions.                    *)
(***************************************************************************)
\* the address of the next allocation: one no descriptor of the map has
FreshAddress(imap) ==
    IF DOMAIN imap = {} THEN 1
    ELSE 1 + CHOOSE a \in {imap[k].addr : k \in DOMAIN imap} :
                 \A k \in DOMAIN imap : imap[k].addr <= a

\* the inner loop creating a descriptor at every reference, without the lookup
RECURSIVE EnsureInterfacesRecreating(_, _)
EnsureInterfacesRecreating(imap, names) ==
    IF names = <<>> THEN imap
    ELSE LET i == Head(names)
             next == MapPut(imap, i, graphInterfaceFor(i, FreshAddress(imap)))
         IN  EnsureInterfacesRecreating(next, Tail(names))

\* the inner loop over obj.Interfaces: create-and-memoize by name
RECURSIVE EnsureInterfaces(_, _)
EnsureInterfaces(imap, names) ==
    IF names = <<>> THEN imap
    ELSE LET i == Head(names)
             next == IF i \in DOMAIN imap THEN imap
                     ELSE MapPut(imap, i, graphInterfaceFor(i, FreshAddress(imap)))
         IN  EnsureInterfaces(next, Tail(names))

\* pd.Arguments.ForName("prefix") found an argument
HasPrefixArgument(pd) == pd.argName = "prefix"

\* prefix := strings.Trim(pa.Value.String(), `"`)
PrefixOfArgument(pd) == Trim(ValueString(pd.argValue), QUOTE)

\* one iteration of the loop without the skip of definitions that implement
\* no interface
ScanOneRegisteringInterfaceless(res, obj) ==
    LET imap == EnsureInterfaces(res.interfaceMap, obj.interfaces)
        ifaces == [k \in 1..Len(obj.interfaces) |-> imap[obj.interfaces[k]]]
        withI == [res EXCEPT !.interfaceMap = imap]
        pd == obj.prefixedID
    IN  IF ~pd.present THEN withI
        ELSE IF ~HasPrefixArgument(pd) THEN withI
        ELSE LET prefix == PrefixOfArgument(pd)
             IN  [withI EXCEPT !.prefixMap =
                     MapPut(@, prefix, graphTypeFor(obj.name, prefix, ifaces))]

\* one iteration of the loop over r.schemaDoc.Definitions
ScanOne(res, obj) ==
    IF Len(obj.interfaces) = 0 THEN res
    ELSE LET imap == EnsureInterfaces(res.interfaceMap, obj.interfaces)
             ifaces == [k \in 1..Len(obj.interfaces) |-> imap[obj.interfaces[k]]]
             withI == [res EXCEPT !.interfaceMap = imap]
             pd == obj.prefixedID
         IN  IF ~pd.present THEN withI
             ELSE IF ~HasPrefixArgument(pd) THEN withI
             ELSE LET prefix == PrefixOfArgument(pd)
                  IN  [withI EXCEPT !.prefixMap =
                          MapPut(@, prefix, graphTypeFor(obj.name, prefix, ifaces))]

(***************************************************************************)
(* NewResolver: validation, the Query root type, schema compilation.       *)
(***************************************************************************)
\* entitiesUnion(): the memoized _Entities union; returns the resolver as the
\* call leaves it (r.entities is written only when it was nil)
entitiesUnion(res) ==
    IF res.entities # <<>> THEN res
    ELSE [res EXCEPT !.entities =
             <<[name |-> "_Entities", types |-> MapValues(res.prefixMap)]>>]

\* Query(): fails without the Node interface, else builds the root type
\* (evaluating r.entitiesUnion() for the _entities field)
Query(res) ==
    IF "Node" \notin DOMAIN res.interfaceMap
    THEN [err |-> ErrMissingNode, res |-> res]
    ELSE [err |-> NoError, res |-> entitiesUnion(res)]

\* GraphTypes(): the object types handed to graphql.NewSchema
GraphTypes(res) == MapValues(res.prefixMap)

ReservedTypeNames == {"Query", "_Entities", "_Any"}

\* graphql.NewSchema: type names must be unique over the collected types
DuplicateTypeNames(res) ==
    {o.name : o \in {x \in GraphTypes(res) :
        \/ \E y \in GraphTypes(res) : y # x /\ y.name = x.name
        \/ x.name \in (DOMAIN res.interfaceMap) \cup ReservedTypeNames}}

\* the compiled schema's possible-type relation: an object is a possible type
\* of each interface it lists and of the union it is a member of
PossibleTypes(res) ==
    UNION {{<<o.interfaces[k].name, o.name>> : k \in DOMAIN o.interfaces} :
              o \in GraphTypes(res)}
    \cup UNION {{<<res.entities[j].name, o.name>> : o \in res.entities[j].types} :
                   j \in DOMAIN res.entities}

\* r.handlerSchema, err = graphql.NewSchema(Query: q, Types: r.GraphTypes())
NewSchema(res) ==
    LET withU == entitiesUnion(res)      \* GraphTypes() appends r.entitiesUnion()
        dups == DuplicateTypeNames(withU)
    IN  IF dups # {}
        THEN [err |-> ErrDuplicateType(CHOOSE n \in dups : TRUE), res |-> withU]
        ELSE [err |-> NoError,
              res |-> [withU EXCEPT !.handlerSchema =
                          [compiled |-> TRUE, possibleTypes |-> PossibleTypes(withU)]]]

\* gq.IsPossibleType(abstractType, possibleType): by name, in the compiled schema
IsPossibleType(schema, abstractName, objName) ==
    <<abstractName, objName>> \in schema.possibleTypes

\* the tail of NewResolver without the empty-prefix-map check
FinishNewResolverNoEmptyCheck(res) ==
    LET q == Query(res)
    IN  IF q.err # NoError
        THEN [resolver |-> FALSE, err |-> q.err, res |-> q.res]
        ELSE LET s == NewSchema(q.res)
             IN  IF s.err # NoError
                 THEN [resolver |-> FALSE, err |-> s.err, res |-> s.res]
                 ELSE [resolver |-> TRUE, err |-> NoError, res |-> s.res]

\* the tail of NewResolver, after the scan: what it returns and how it leaves r
FinishNewResolver(res) ==
    IF DOMAIN res.prefixMap = {}
    THEN [resolver |-> FALSE, err |-> ErrNoValidTypes, res |-> res]
    ELSE LET q == Query(res)
         IN  IF q.err # NoError
             THEN [resolver |-> FALSE, err |-> q.err, res |-> q.res]
             ELSE LET s == NewSchema(q.res)
                  IN  IF s.err # NoError
                      THEN [resolver |-> FALSE, err |-> s.err, res |-> s.res]
                      ELSE [resolver |-> TRUE, err |-> NoError, res |-> s.res]

(***************************************************************************)
(* Requests.                                                               *)
(***************************************************************************)
IdleRequest ==
    [pc |-> "idle", kind |-> "", ids |-> <<>>, reps |-> <<>>, entities |-> <<>>,
     data |-> <<>>, dataNull |-> FALSE, errors |-> <<>>]

NullResult == [null |-> TRUE, typename |-> "", id |-> ""]
Rendered(typename, id) == [null |-> FALSE, typename |-> typename, id |-> id]

(***************************************************************************)
(* gidx: the prefixed-identifier codec.                                    *)
(***************************************************************************)
PrefixPartLength == 7

ErrIDFormat == "invalid id: expected id format is prefix-id"
ErrIDPrefixLength == "invalid id: expected prefix length is 7"

\* gidx.Parse(str): "" when str is a well-formed prefix-id, else the error
ParseError(str) ==
    LET dash == IndexOf(str, "-")
    IN  IF dash = 0 THEN ErrIDFormat
        ELSE IF dash - 1 # PrefixPartLength THEN ErrIDPrefixLength
        ELSE NoError

\* PrefixedID.Prefix(): the first PrefixPartLength characters
Prefix(id) == SubSeq(id, 1, PrefixPartLength)

(***************************************************************************)
(* The node field.                                                         *)
(***************************************************************************)
\* GetNode(id): the Node for a registered prefix, else ErrUnknownPrefix
GetNode(res, id) ==
    IF Prefix(id) \in DOMAIN res.prefixMap
    THEN [err |-> NoError, node |-> <<[ID |-> id, GraphType |-> res.prefixMap[Prefix(id)]]>>]
    ELSE [err |-> ErrUnknownPrefix, node |-> <<>>]

\* the interface's ResolveType for a *Node: o.GraphType
ResolveTypeOfNode(node) == node.GraphType

\* the object's IsTypeOf: o.ID.Prefix() == prefix
IsTypeOf(obj, id) == Prefix(id) = obj.prefix

\* the object's id field resolver: o.ID
ResolveID(value) == value.ID

ErrNotPossibleType(objName, abstractName) ==
    "Runtime Object type \"" \o objName \o "\" is not a possible type for \""
        \o abstractName \o "\"."
ErrNotTypeOf(objName) == "Expected value of type \"" \o objName \o "\" but got: *graphapi.Node."

\* One node(id: ...) { __typename id } field, from the field resolver to the
\* rendered value: the resolver parses the id and calls GetNode; the executor
\* completes the Node against the field's type, the Node interface (the runtime
\* type from ResolveType must be a possible type of it and accept the value),
\* and a failure anywhere nulls this field and records one error.
NodeField(res, idString) ==
    IF ParseError(idString) # NoError
    THEN [result |-> NullResult, errors |-> <<ParseError(idString)>>]
    ELSE LET got == GetNode(res, idString)
         IN  IF got.err # NoError
             THEN [result |-> NullResult, errors |-> <<got.err>>]
             ELSE LET node == got.node[1]
                      runtimeType == ResolveTypeOfNode(node)
                  IN  IF ~IsPossibleType(res.handlerSchema, "Node", runtimeType.name)
                      THEN [result |-> NullResult,
                            errors |-> <<ErrNotPossibleType(runtimeType.name, "Node")>>]
                      ELSE IF ~IsTypeOf(runtimeType, node.ID)
                      THEN [result |-> NullResult,
                            errors |-> <<ErrNotTypeOf(runtimeType.name)>>]
                      ELSE [result |-> Rendered(runtimeType.name, ResolveID(node)),
                            errors |-> <<>>]

(***************************************************************************)
(* The _entities field.                                                    *)
(***************************************************************************)
\* a value of a representation's key: a string, absent, or of another type
StringValue(str) == [kind |-> "string", s |-> str]
AbsentValue == [kind |-> "absent", s |-> ""]
NumberValue == [kind |-> "number", s |-> ""]

ErrInterfaceConversion == "interface conversion: interface {} is not string"

\* re["id"].(string) and re["__typename"].(string) both succeed
RepresentationIsWellFormed(rep) ==
    rep.id.kind = "string" /\ rep.typename.kind = "string"

\* entitiesResolver: the list of *Entity, or the panic of a failed assertion
entitiesResolver(reps) ==
    IF \A k \in DOMAIN reps : RepresentationIsWellFormed(reps[k])
    THEN [panic |-> NoError,
          entities |-> [k \in DOMAIN reps |->
                           [typeName |-> reps[k].typename.s, ID |-> reps[k].id.s]]]
    ELSE [panic |-> ErrInterfaceConversion, entities |-> <<>>]

ErrUnknownInterface(typeName) == typeName \o " is an unknown interface type"
ErrUnknownIDPrefix(prefix) == prefix \o " is an unknown id prefix"
ErrNotImplemented(objName, ifaceName) ==
    objName \o " doesn't implement interface " \o ifaceName

\* entityTypeResolver with the two lookups in the other order (prefix first)
entityTypeResolverPrefixFirst(res, entity) ==
    IF Prefix(entity.ID) \notin DOMAIN res.prefixMap
    THEN [panic |-> ErrUnknownIDPrefix(Prefix(entity.ID)), objType |-> <<>>]
    ELSE IF entity.typeName \notin DOMAIN res.interfaceMap
    THEN [panic |-> ErrUnknownInterface(entity.typeName), objType |-> <<>>]
    ELSE LET graphType == res.interfaceMap[entity.typeName]
             objType == res.prefixMap[Prefix(entity.ID)]
         IN  IF IsPossibleType(res.handlerSchema, graphType.name, objType.name)
             THEN [panic |-> NoError, objType |-> <<objType>>]
             ELSE [panic |-> ErrNotImplemented(objType.name, graphType.name),
                   objType |-> <<>>]

\* entityTypeResolver looking the typename up among the registered object
\* types as well: a typename that is the name of the type registered for the
\* id's prefix resolves to that type
entityTypeResolverAcceptingTypeNames(res, entity) ==
    IF entity.typeName \notin DOMAIN res.interfaceMap
    THEN IF /\ Prefix(entity.ID) \in DOMAIN res.prefixMap
            /\ res.prefixMap[Prefix(entity.ID)].name = entity.typeName
         THEN [panic |-> NoError, objType |-> <<res.prefixMap[Prefix(entity.ID)]>>]
         ELSE [panic |-> ErrUnknownInterface(entity.typeName), objType |-> <<>>]
    ELSE IF Prefix(entity.ID) \notin DOMAIN res.prefixMap
    THEN [panic |-> ErrUnknownIDPrefix(Prefix(entity.ID)), objType |-> <<>>]
    ELSE LET graphType == res.interfaceMap[entity.typeName]
             objType == res.prefixMap[Prefix(entity.ID)]
         IN  IF IsPossibleType(res.handlerSchema, graphType.name, objType.name)
             THEN [panic |-> NoError, objType |-> <<objType>>]
             ELSE [panic |-> ErrNotImplemented(objType.name, graphType.name),
                   objType |-> <<>>]

\* entityTypeResolver: the object type, or the error it panics with
entityTypeResolver(res, entity) ==
    IF entity.typeName \notin DOMAIN res.interfaceMap
    THEN [panic |-> ErrUnknownInterface(entity.typeName), objType |-> <<>>]
    ELSE IF Prefix(entity.ID) \notin DOMAIN res.prefixMap
    THEN [panic |-> ErrUnknownIDPrefix(Prefix(entity.ID)), objType |-> <<>>]
    ELSE LET graphType == res.interfaceMap[entity.typeName]
             objType == res.prefixMap[Prefix(entity.ID)]
         IN  IF IsPossibleType(res.handlerSchema, graphType.name, objType.name)
             THEN [panic |-> NoError, objType |-> <<objType>>]
             ELSE [panic |-> ErrNotImplemented(objType.name, graphType.name),
                   objType |-> <<>>]

\* One item of the _entities list: the union's ResolveType is
\* entityTypeResolver; the executor catches its panic at the (nullable) item,
\* nulls the item and records the error; otherwise the item is completed as the
\* resolved object type.
EntityItem(res, entity) ==
    LET resolved == entityTypeResolver(res, entity)
    IN  IF resolved.panic # NoError
        THEN [result |-> NullResult, errors |-> <<resolved.panic>>]
        ELSE LET objType == resolved.objType[1]
             IN  IF ~IsPossibleType(res.handlerSchema, "_Entities", objType.name)
                 THEN [result |-> NullResult,
                       errors |-> <<ErrNotPossibleType(objType.name, "_Entities")>>]
                 ELSE IF ~IsTypeOf(objType, entity.ID)
                 THEN [result |-> NullResult, errors |-> <<ErrNotTypeOf(objType.name)>>]
                 ELSE [result |-> Rendered(objType.name, ResolveID(entity)),
                       errors |-> <<>>]

(***************************************************************************)
(* serve() and NewResolver() as steps.                                     *)
(***************************************************************************)
\* NewResolver, lines up to r.schemaDoc = schema: allocate, parse
NewResolverParse ==
    /\ pc = "start"
    /\ IF rawSchema.parses
       THEN /\ r' = [NewResolverStruct EXCEPT !.schemaDoc = rawSchema.defs]
            /\ pc' = "scan"
            /\ ret' = ret
       ELSE /\ r' = NewResolverStruct
            /\ pc' = "returned"
            /\ ret' = [resolver |-> FALSE, err |-> ErrParse]
    /\ UNCHANGED <<rawSchema, scanIdx, registered, reqs>>

\* one iteration of the scan loop
ScanDefinition ==
    /\ pc = "scan"
    /\ scanIdx < Len(r.schemaDoc)
    /\ r' = ScanOne(r, r.schemaDoc[scanIdx + 1])
    /\ scanIdx' = scanIdx + 1
    /\ UNCHANGED <<rawSchema, pc, ret, registered, reqs>>

\* the loop has ended: empty-map check, Query(), NewSchema, return
NewResolverReturn ==
    /\ pc = "scan"
    /\ scanIdx = Len(r.schemaDoc)
    /\ LET f == FinishNewResolver(r)
       IN  /\ r' = f.res
           /\ ret' = [resolver |-> f.resolver, err |-> f.err]
    /\ pc' = "returned"
    /\ UNCHANGED <<rawSchema, scanIdx, registered, reqs>>

\* serve logging the error without exiting, and going on to register the handler
ServeLogsAndContinues ==
    /\ pc = "returned"
    /\ ret.err # NoError
    /\ registered' = TRUE
    /\ pc' = "handler"
    /\ UNCHANGED <<rawSchema, scanIdx, r, ret, reqs>>

\* serve: if err != nil { logger.Fatalw(...) } -- the process exits
ServeFatal ==
    /\ pc = "returned"
    /\ ret.err # NoError
    /\ pc' = "exited"
    /\ UNCHANGED <<rawSchema, scanIdx, r, ret, registered, reqs>>

\* serve: srv.AddHandler(r)
ServeAddHandler ==
    /\ pc = "returned"
    /\ ret.err = NoError
    /\ registered' = TRUE
    /\ pc' = "handler"
    /\ UNCHANGED <<rawSchema, scanIdx, r, ret, reqs>>

\* serve: srv.RunWithContext(ctx) -- the server accepts requests
ServeRun ==
    /\ pc = "handler"
    /\ pc' = "serving"
    /\ UNCHANGED <<rawSchema, scanIdx, r, ret, registered, reqs>>

BuildNext ==
    \/ NewResolverParse
    \/ ScanDefinition
    \/ NewResolverReturn
    \/ ServeFatal
    \/ ServeAddHandler
    \/ ServeRun

(***************************************************************************)
(* GraphHandler: a request from its arrival to its response.  graphql.Do   *)
(* resolves the root fields of a query one after the other, and the items  *)
(* of a list in list order.                                                *)
(***************************************************************************)
\* the entries of the response's error list: the message and the position
\* (field or list item, 0 for the field as a whole) it is recorded against
Located(messages, path) ==
    [k \in DOMAIN messages |-> [path |-> path, message |-> messages[k]]]

\* a request arrives whose query is a sequence of aliased node(id: ...) fields
GraphHandlerNode(q, ids) ==
    /\ pc = "serving"
    /\ reqs[q].pc = "idle"
    /\ reqs' = [reqs EXCEPT ![q] = [IdleRequest EXCEPT !.pc = "node", !.kind = "node", !.ids = ids]]
    /\ UNCHANGED <<rawSchema, pc, scanIdx, r, ret, registered>>

\* the next node field of the request is resolved and completed
ResolveNodeField(q) ==
    /\ reqs[q].pc = "node"
    /\ LET i == Len(reqs[q].data) + 1
           out == NodeField(r, reqs[q].ids[i])
       IN  reqs' = [reqs EXCEPT ![q] =
                       [@ EXCEPT !.data = Append(@, out.result),
                                 !.errors = @ \o Located(out.errors, i),
                                 !.pc = IF i = Len(reqs[q].ids) THEN "done" ELSE "node"]]
    /\ UNCHANGED <<rawSchema, pc, scanIdx, r, ret, registered>>

\* a request arrives whose query is _entities(representations: reps)
GraphHandlerEntities(q, reps) ==
    /\ pc = "serving"
    /\ reqs[q].pc = "idle"
    /\ reqs' = [reqs EXCEPT ![q] =
                    [IdleRequest EXCEPT !.pc = "entities", !.kind = "entities", !.reps = reps]]
    /\ UNCHANGED <<rawSchema, pc, scanIdx, r, ret, registered>>

\* the _entities field resolver runs.  Its panic is not caught at the field:
\* the field's type is non-null, so the failure nulls the whole response data.
ResolveEntities(q) ==
    /\ reqs[q].pc = "entities"
    /\ LET out == entitiesResolver(reqs[q].reps)
       IN  reqs' = [reqs EXCEPT ![q] =
                IF out.panic # NoError
                THEN [@ EXCEPT !.dataNull = TRUE, !.errors = Located(<<out.panic>>, 0),
                          !.pc = "done"]
                ELSE [@ EXCEPT !.entities = out.entities,
                               !.pc = IF out.entities = <<>> THEN "done" ELSE "items"]]
    /\ UNCHANGED <<rawSchema, pc, scanIdx, r, ret, registered>>

\* the item step with the type resolver memoizing an interface descriptor for
\* the typename it is asked about, as the scan does on first reference
ResolveEntityItemMemoizing(q) ==
    /\ reqs[q].pc = "items"
    /\ LET i == Len(reqs[q].data) + 1
           out == EntityItem(r, reqs[q].entities[i])
       IN  /\ reqs' = [reqs EXCEPT ![q] =
                          [@ EXCEPT !.data = Append(@, out.result),
                                    !.errors = @ \o Located(out.errors, i),
                                    !.pc = IF i = Len(reqs[q].entities)
                                           THEN "done" ELSE "items"]]
           /\ r' = [r EXCEPT !.interfaceMap =
                       EnsureInterfaces(@, <<reqs[q].entities[i].typeName>>)]
    /\ UNCHANGED <<rawSchema, pc, scanIdx, ret, registered>>

\* the next item of the entity list is resolved to a type and completed
ResolveEntityItem(q) ==
    /\ reqs[q].pc = "items"
    /\ LET i == Len(reqs[q].data) + 1
           out == EntityItem(r, reqs[q].entities[i])
       IN  reqs' = [reqs EXCEPT ![q] =
                       [@ EXCEPT !.data = Append(@, out.result),
                                 !.errors = @ \o Located(out.errors, i),
                                 !.pc = IF i = Len(reqs[q].entities) THEN "done" ELSE "items"]]
    /\ UNCHANGED <<rawSchema, pc, scanIdx, r, ret, registered>>

\* ctx.JSON(http.StatusOK, result): the response is written, the handler returns
Respond(q) ==
    /\ reqs[q].pc = "done"
    /\ reqs' = [reqs EXCEPT ![q] = IdleRequest]
    /\ UNCHANGED <<rawSchema, pc, scanIdx, r, ret, registered>>

\* request inputs
NodeIds == {"testsrv-1", "testusr-2", "notreal-3", "invalidtest-9"}
EntityIds == {"testsrv-1", "testusr-2", "notreal-3"}
EntityTypeNames == {"Node", "Actor", "User"}

Representations ==
    {[typename |-> StringValue(t), id |-> StringValue(i)] :
        t \in EntityTypeNames, i \in EntityIds}
    \cup {[typename |-> StringValue("Node"), id |-> AbsentValue],
          [typename |-> NumberValue, id |-> StringValue("testsrv-1")]}

NodeQueries == SeqsUpTo(NodeIds, MaxFields) \ {<<>>}
EntityBatches == SeqsUpTo(Representations, MaxReps)

RequestNext ==
    \E q \in DOMAIN reqs :
        \/ \E ids \in NodeQueries : GraphHandlerNode(q, ids)
        \/ ResolveNodeField(q)
        \/ \E reps \in EntityBatches : GraphHandlerEntities(q, reps)
        \/ ResolveEntities(q)
        \/ ResolveEntityItem(q)
        \/ Respond(q)

\* the inputs of the runs with concurrent requests: one field or one
\* representation per request
ConcNodeQueries == {<<i>> : i \in {"testsrv-1", "notreal-3"}}
ConcEntityBatches ==
    {<<[typename |-> StringValue(t), id |-> StringValue("testusr-2")]>> :
        t \in {"Node", "Actor"}}
    \cup {<<[typename |-> StringValue("Node"), id |-> AbsentValue]>>}

ConcRequestNext ==
    \E q \in DOMAIN reqs :
        \/ \E ids \in ConcNodeQueries : GraphHandlerNode(q, ids)
        \/ ResolveNodeField(q)
        \/ \E reps \in ConcEntityBatches : GraphHandlerEntities(q, reps)
        \/ ResolveEntities(q)
        \/ ResolveEntityItem(q)
        \/ Respond(q)

InitWith(schemas, slots) ==
    /\ rawSchema \in schemas
    /\ pc = "start"
    /\ scanIdx = 0
    /\ r = NewResolverStruct
    /\ ret = [resolver |-> FALSE, err |-> NoError]
    /\ registered = FALSE
    /\ reqs = [q \in slots |-> IdleRequest]

\* the build alone, over every document of the definition universe
InitBuild == InitWith({Unparseable} \cup Documents(Definitions, MaxDefs), {})
SpecBuild == InitBuild /\ [][BuildNext]_vars

\* the build followed by requests served one at a time
DistinctNames(doc) ==
    \A j, k \in DOMAIN doc.defs : doc.defs[j].name = doc.defs[k].name => j = k

\* the documents served: no type is defined twice, so none is longer than
\* the set of type names
ServeSchemas ==
    {Unparseable}
    \cup {doc \in Documents(ServeDefinitions, Cardinality(TypeNames)) : DistinctNames(doc)}
Init == InitWith(ServeSchemas, {1})
Next == BuildNext \/ RequestNext
Spec == Init /\ [][Next]_vars

\* the build followed by concurrent requests, their steps interleaved
InitConc == InitWith(ServeSchemas, 1..MaxReqs)
NextConc == BuildNext \/ ConcRequestNext
SpecConc == InitConc /\ [][NextConc]_vars

(***************************************************************************)
(* Properties of the build (checked under SpecBuild).                      *)
(***************************************************************************)
Returned == pc \in {"returned", "exited", "handler", "serving"}

ImplementsNode(d) == \E k \in DOMAIN d.interfaces : d.interfaces[k] = "Node"

NoDefinitionImplementsNode ==
    \A k \in DOMAIN rawSchema.defs : ~ImplementsNode(rawSchema.defs[k])

LacksDirectiveOrArgument(d) ==
    ~d.prefixedID.present \/ d.prefixedID.argName # "prefix"

\* C3: for every parseable schema with type definitions none of which
\* implements an interface named Node, NewResolver returns (nil, error) and
\* the error message contains "missing from schema".
C3_MissingNodeMessage ==
    (Returned /\ rawSchema.parses /\ rawSchema.defs # <<>> /\ NoDefinitionImplementsNode)
        => (~ret.resolver /\ Contains(ret.err, "missing from schema"))

C5_InvalidPrefixedIDBuilds ==
    (Returned
        /\ rawSchema.parses
        /\ Len(rawSchema.defs) = 1
        /\ ImplementsNode(rawSchema.defs[1])
        /\ rawSchema.defs[1].prefixedID.present
        /\ rawSchema.defs[1].prefixedID.argName # "prefix")
        => (ret.resolver /\ ret.err = NoError)

FullyBuilt(res) ==
    /\ res.handlerSchema.compiled
    /\ res.entities # <<>>
    /\ DOMAIN res.prefixMap # {}
    /\ "Node" \in DOMAIN res.interfaceMap
    /\ res.schemaDoc = rawSchema.defs

\* C9: NewResolver returns (fully built resolver, nil) or (nil, error), never
\* both, never neither and never a partial resolver; the handler is registered
\* and the server runs only after a successful return; after a failed return
\* the only step is the exit, and nothing follows the exit.
C9_BuildThenServe ==
    /\ [](Returned => (ret.resolver <=> ret.err = NoError))
    /\ [](ret.resolver => (Returned /\ FullyBuilt(r)))
    /\ []((registered \/ pc \in {"handler", "serving"})
            => (ret.resolver /\ ret.err = NoError /\ FullyBuilt(r)))
    /\ [][(pc = "returned" /\ ret.err # NoError) => (pc' = "exited" /\ ~registered')]_vars
    /\ [][pc = "exited" => FALSE]_vars

\* C9's case: a build succeeded and the server reached the serving state.
C9_Witness ==
    /\ pc = "serving"
    /\ registered
    /\ ret.resolver
    /\ Len(rawSchema.defs) >= 2

(***************************************************************************)
(* Properties of the node field (checked under Spec).                      *)
(***************************************************************************)
ErrorsAt(req, i) == SelectSeq(req.errors, LAMBDA e : e.path = i)

KnownPrefixId(id) == ParseError(id) = NoError /\ Prefix(id) \in DOMAIN r.prefixMap
UnknownPrefixId(id) == ParseError(id) = NoError /\ Prefix(id) \notin DOMAIN r.prefixMap

\* C1: for every built resolver and every identifier whose prefix is a key of
\* the prefix map, the node field renders non-null, its __typename the name of
\* the type registered under the prefix and its id the input identifier.
C1_NodeRoundTrip ==
    \A q \in DOMAIN reqs :
        \A i \in DOMAIN reqs[q].data :
            (reqs[q].kind = "node" /\ KnownPrefixId(reqs[q].ids[i]))
                => reqs[q].data[i] =
                      Rendered(r.prefixMap[Prefix(reqs[q].ids[i])].name, reqs[q].ids[i])

\* C2: in a finished request, each node field with an unknown prefix is null
\* with exactly one error, containing "unknown prefix"; each sibling with a
\* registered prefix is non-null; and one unknown-prefix field beside one
\* known-prefix field gives exactly one error in the whole response.
C2_NodeFieldsIndependent ==
    \A q \in DOMAIN reqs :
        (reqs[q].kind = "node" /\ reqs[q].pc = "done")
            => LET req == reqs[q]
               IN  /\ Len(req.data) = Len(req.ids)
                   /\ \A i \in DOMAIN req.ids :
                         /\ UnknownPrefixId(req.ids[i])
                               => /\ req.data[i].null
                                  /\ Len(ErrorsAt(req, i)) = 1
                                  /\ Contains(ErrorsAt(req, i)[1].message, "unknown prefix")
                         /\ KnownPrefixId(req.ids[i]) => ~req.data[i].null
                   /\ (/\ Len(req.ids) = 2
                       /\ \E i, j \in DOMAIN req.ids :
                             UnknownPrefixId(req.ids[i]) /\ KnownPrefixId(req.ids[j]))
                         => Len(req.errors) = 1

(***************************************************************************)
(* Properties of the _entities field (checked under Spec).                 *)
(***************************************************************************)
DeclaresInterface(obj, ifaceName) ==
    \E k \in DOMAIN obj.interfaces : obj.interfaces[k].name = ifaceName

UnknownInterfaceRep(rep) == rep.typename.s \notin DOMAIN r.interfaceMap
UnknownPrefixRep(rep) == Prefix(rep.id.s) \notin DOMAIN r.prefixMap
NotImplementingRep(rep) ==
    ~DeclaresInterface(r.prefixMap[Prefix(rep.id.s)], rep.typename.s)

\* C6: each item the type resolver has decided got the outcome of the first
\* failing check, in the order unknown interface, unknown id prefix, type not
\* implementing the interface, with that check's message as its single error;
\* an item passing all three is the type registered for its prefix.
C6_EntityChecksInOrder ==
    \A q \in DOMAIN reqs :
        \A i \in DOMAIN reqs[q].data :
            reqs[q].kind = "entities"
                => LET rep == reqs[q].reps[i]
                       out == reqs[q].data[i]
                       errs == ErrorsAt(reqs[q], i)
                   IN  IF UnknownInterfaceRep(rep)
                       THEN out.null /\ Len(errs) = 1
                            /\ errs[1].message = rep.typename.s \o " is an unknown interface type"
                       ELSE IF UnknownPrefixRep(rep)
                       THEN out.null /\ Len(errs) = 1
                            /\ errs[1].message = Prefix(rep.id.s) \o " is an unknown id prefix"
                       ELSE IF NotImplementingRep(rep)
                       THEN out.null /\ Len(errs) = 1
                            /\ errs[1].message =
                                  r.prefixMap[Prefix(rep.id.s)].name
                                      \o " doesn't implement interface " \o rep.typename.s
                       ELSE out = Rendered(r.prefixMap[Prefix(rep.id.s)].name, rep.id.s)
                            /\ errs = <<>>

\* C6's case: a finished batch whose first item resolved and whose second item
\* has both an unknown typename and an unknown prefix, and reports the
\* unknown interface.
C6_Witness ==
    \E q \in DOMAIN reqs :
        /\ reqs[q].kind = "entities"
        /\ reqs[q].pc = "done"
        /\ Len(reqs[q].data) = 2
        /\ ~reqs[q].data[1].null
        /\ UnknownInterfaceRep(reqs[q].reps[2])
        /\ UnknownPrefixRep(reqs[q].reps[2])
        /\ reqs[q].data[2].null
        /\ Contains(reqs[q].errors[1].message, "unknown interface type")

FailedRep(rep) ==
    \/ ~RepresentationIsWellFormed(rep)
    \/ UnknownInterfaceRep(rep)
    \/ UnknownPrefixRep(rep)
    \/ NotImplementingRep(rep)

\* the failed positions of a batch, in ascending order
RECURSIVE FailedPositions(_, _)
FailedPositions(reps, from) ==
    IF from > Len(reps) THEN <<>>
    ELSE (IF FailedRep(reps[from]) THEN <<from>> ELSE <<>>)
            \o FailedPositions(reps, from + 1)

\* C7: a finished batch of N representations has a result list of length N,
\* position i holding the outcome of representation i (null exactly when it
\* failed), and the error list has one entry per failed item, in the order of
\* the failed positions.
C7_BatchOrderAndLength ==
    \A q \in DOMAIN reqs :
        (reqs[q].kind = "entities" /\ reqs[q].pc = "done")
            => LET req == reqs[q]
               IN  /\ ~req.dataNull
                   /\ Len(req.data) = Len(req.reps)
                   /\ \A i \in DOMAIN req.data :
                         /\ req.data[i].null <=> FailedRep(req.reps[i])
                         /\ ~req.data[i].null => req.data[i].id = req.reps[i].id.s
                   /\ [k \in DOMAIN req.errors |-> req.errors[k].path]
                         = FailedPositions(req.reps, 1)

\* what a representation resolves to when it is the only one of its batch
ResolvedAlone(rep) ==
    IF RepresentationIsWellFormed(rep)
    THEN EntityItem(r, [typeName |-> rep.typename.s, ID |-> rep.id.s]).result
    ELSE NullResult

\* C8: when an item of a batch fails (an unknown interface, an unknown
\* prefix, a type not implementing the interface, a representation whose id or
\* __typename is missing or not a string), the result is still a list and
\* every other item of it is what that item resolves to alone.
C8_ItemFailureIsolated ==
    \A q \in DOMAIN reqs :
        (reqs[q].kind = "entities" /\ reqs[q].pc = "done")
            => \A i, j \in DOMAIN reqs[q].reps :
                  (i # j /\ FailedRep(reqs[q].reps[j]))
                      => /\ ~reqs[q].dataNull
                         /\ Len(reqs[q].data) = Len(reqs[q].reps)
                         /\ reqs[q].data[i] = ResolvedAlone(reqs[q].reps[i])

(***************************************************************************)
(* The registry at request time (checked under SpecConc).                  *)
(***************************************************************************)
\* C10: once NewResolver has returned a resolver, no step writes the prefix
\* map, the interface map or the memoized union, whatever the interleaving of
\* the requests in flight; and two node fields of any requests with the same
\* prefix render the same type.
C10_RegistryReadOnly ==
    /\ [][ret.resolver =>
            /\ r'.prefixMap = r.prefixMap
            /\ r'.interfaceMap = r.interfaceMap
            /\ r'.entities = r.entities]_vars
    /\ [](\A p, q \in DOMAIN reqs :
            \A i \in DOMAIN reqs[p].data, j \in DOMAIN reqs[q].data :
                (/\ reqs[p].kind = "node" /\ reqs[q].kind = "node"
                 /\ ~reqs[p].data[i].null /\ ~reqs[q].data[j].null
                 /\ Prefix(reqs[p].ids[i]) = Prefix(reqs[q].ids[j]))
                    => reqs[p].data[i].typename = reqs[q].data[j].typename)

\* C10's case: two requests are in flight at once, a node lookup that has
\* resolved its field and an _entities batch whose item has been resolved.
C10_Witness ==
    \E p, q \in DOMAIN reqs :
        /\ p # q
        /\ reqs[p].kind = "node" /\ Len(reqs[p].data) = 1 /\ ~reqs[p].data[1].null
        /\ reqs[q].kind = "entities" /\ Len(reqs[q].data) = 1
        /\ ret.resolver

(***************************************************************************)
(* Properties of the scan (checked under SpecBuild).                       *)
(***************************************************************************)
\* the scan loop is running or has run over a parsed document
Scanning == rawSchema.parses /\ pc # "start"

\* the positions of the document the scan registers a type for: the
\* definition implements something and carries @prefixedID(prefix: ...)
Registers(d) ==
    /\ d.interfaces # <<>>
    /\ d.prefixedID.present
    /\ d.prefixedID.argName = "prefix"

RegisteringPositions(n) ==
    {k \in 1..n : Registers(rawSchema.defs[k])}

\* C11: at every point of the scan and after it, the key set of the prefix
\* map is exactly the set of prefix argument values (without their quotes) of
\* the definitions consumed so far that implement at least one interface and
\* carry @prefixedID with a prefix argument, each key holding a type built
\* for that prefix; definitions without interfaces, without the directive or
\* without the argument contribute no key, and every definition is consumed.
C11_PrefixMapKeys ==
    Scanning =>
        /\ DOMAIN r.prefixMap =
              {rawSchema.defs[k].prefixedID.argValue : k \in RegisteringPositions(scanIdx)}
        /\ \A p \in DOMAIN r.prefixMap : r.prefixMap[p].prefix = p
        /\ Returned => scanIdx = Len(rawSchema.defs)

\* C11's case: the scan has consumed a definition without interfaces that
\* carries @prefixedID(prefix: ...) and a definition that is registered under
\* another prefix; only the second prefix is a key.
C11_Witness ==
    /\ Scanning
    /\ scanIdx = 2
    /\ rawSchema.defs[1].interfaces = <<>>
    /\ rawSchema.defs[1].prefixedID.present
    /\ rawSchema.defs[1].prefixedID.argName = "prefix"
    /\ Registers(rawSchema.defs[2])
    /\ rawSchema.defs[2].prefixedID.argValue # rawSchema.defs[1].prefixedID.argValue
    /\ DOMAIN r.prefixMap = {rawSchema.defs[2].prefixedID.argValue}

\* the interface names the first n definitions of the document declare
InterfacesSeen(n) ==
    UNION {{rawSchema.defs[k].interfaces[j] : j \in DOMAIN rawSchema.defs[k].interfaces} :
              k \in 1..n}

InterfaceMapOfScan ==
    Scanning =>
        /\ DOMAIN r.interfaceMap = InterfacesSeen(scanIdx)
        /\ \A n \in DOMAIN r.interfaceMap : r.interfaceMap[n].name = n
        /\ \A m, n \in DOMAIN r.interfaceMap :
              r.interfaceMap[m].addr = r.interfaceMap[n].addr => m = n
        /\ \A p \in DOMAIN r.prefixMap :
              \A k \in DOMAIN r.prefixMap[p].interfaces :
                  LET gi == r.prefixMap[p].interfaces[k]
                  IN  /\ gi.name \in DOMAIN r.interfaceMap
                      /\ r.interfaceMap[gi.name] = gi

\* C12: at every point of the scan the interface map has one descriptor per
\* interface name declared by the definitions consumed so far, whether or
\* not the definition went on to be registered; a descriptor, once created,
\* is never replaced; and every interface a registered type lists is the
\* very descriptor the interface map holds under that name.
C12_InterfaceMapMemoized ==
    /\ []InterfaceMapOfScan
    /\ [][\A n \in DOMAIN r.interfaceMap :
             n \in DOMAIN r'.interfaceMap /\ r'.interfaceMap[n] = r.interfaceMap[n]]_vars

\* C12's case: the first definition implements Actor and is skipped for its
\* missing directive, the second implements Node and Actor and is registered;
\* the type lists the Actor descriptor created for the first.
C12_Witness ==
    /\ Scanning
    /\ scanIdx = 2
    /\ rawSchema.defs[1].interfaces = <<"Actor">>
    /\ ~rawSchema.defs[1].prefixedID.present
    /\ rawSchema.defs[2].interfaces = <<"Node", "Actor">>
    /\ Registers(rawSchema.defs[2])
    /\ r.interfaceMap["Actor"].addr = 1
    /\ r.interfaceMap["Node"].addr = 2
    /\ \E p \in DOMAIN r.prefixMap : r.prefixMap[p].interfaces[2] = r.interfaceMap["Actor"]

\* a registering definition that a later one of the first n shadows: the
\* later one declares the same prefix
Shadowed(k, n) ==
    /\ k \in RegisteringPositions(n)
    /\ \E j \in RegisteringPositions(n) :
          /\ j > k
          /\ rawSchema.defs[j].prefixedID.argValue = rawSchema.defs[k].prefixedID.argValue

Surviving(n) == {k \in RegisteringPositions(n) : ~Shadowed(k, n)}

\* the object type the scan builds for definition k
TypeOfDefinition(k) ==
    LET d == rawSchema.defs[k]
    IN  graphTypeFor(d.name, d.prefixedID.argValue,
                     [j \in 1..Len(d.interfaces) |-> r.interfaceMap[d.interfaces[j]]])

SurvivingTypes(n) == {TypeOfDefinition(k) : k \in Surviving(n)}

\* nothing but the duplicated prefix could fail the build: Node is declared
\* and the surviving definitions have distinct names
BuildsButForDuplicates ==
    /\ "Node" \in InterfacesSeen(Len(rawSchema.defs))
    /\ \A j, k \in Surviving(Len(rawSchema.defs)) :
          rawSchema.defs[j].name = rawSchema.defs[k].name => j = k

\* C13: at every point of the scan the prefix map has one entry per declared
\* prefix, holding the type of the last definition consumed so far that
\* declares it; the shadowed definitions' types are not among the types
\* handed to schema compilation, not in the _Entities union and not what any
\* identifier resolves to; and a document with a duplicated prefix builds
\* whenever nothing else fails it.
C13_LastDefinitionWins ==
    Scanning =>
        /\ \A p \in DOMAIN r.prefixMap :
              \E k \in Surviving(scanIdx) :
                  /\ rawSchema.defs[k].prefixedID.argValue = p
                  /\ r.prefixMap[p] = TypeOfDefinition(k)
        /\ Cardinality(GraphTypes(r)) = Cardinality(DOMAIN r.prefixMap)
        /\ GraphTypes(r) = SurvivingTypes(scanIdx)
        /\ \A id \in NodeIds :
              GetNode(r, id).err = NoError
                  => GetNode(r, id).node[1].GraphType \in SurvivingTypes(scanIdx)
        /\ (Returned /\ BuildsButForDuplicates
                /\ \E k \in DOMAIN rawSchema.defs : Shadowed(k, Len(rawSchema.defs)))
              => /\ ret.resolver
                 /\ ret.err = NoError
                 /\ r.entities[1].types = SurvivingTypes(scanIdx)
                 /\ \A t \in EntityTypeNames, id \in EntityIds :
                       \A k \in DOMAIN entityTypeResolver(r, [typeName |-> t, ID |-> id]).objType :
                           entityTypeResolver(r, [typeName |-> t, ID |-> id]).objType[k]
                               \in SurvivingTypes(scanIdx)

\* C13's case: two definitions with different names declare the same prefix,
\* the build succeeded and the server runs; the prefix resolves to the second
\* definition's type and the union has that one member.
C13_Witness ==
    /\ pc = "serving"
    /\ ret.resolver
    /\ Len(rawSchema.defs) = 2
    /\ Shadowed(1, 2)
    /\ rawSchema.defs[1].name # rawSchema.defs[2].name
    /\ DOMAIN r.prefixMap = {rawSchema.defs[2].prefixedID.argValue}
    /\ r.prefixMap[rawSchema.defs[2].prefixedID.argValue].name = rawSchema.defs[2].name
    /\ Cardinality(r.entities[1].types) = 1

(***************************************************************************)
(* The __typename of a representation (checked under Spec).                *)
(***************************************************************************)
RegisteredTypeNames == {r.prefixMap[p].name : p \in DOMAIN r.prefixMap}

\* a representation naming a registered object type that is not an interface
ConcreteTypeRep(rep) ==
    /\ rep.typename.s \in RegisteredTypeNames
    /\ rep.typename.s \notin DOMAIN r.interfaceMap

\* C14: every decided item of an _entities batch whose __typename is the name
\* of a registered object type and not an interface name is null, its single
\* error "<typename> is an unknown interface type", whatever its id, the
\* identifiers of that very type included.
C14_TypenameIsAnInterfaceName ==
    \A q \in DOMAIN reqs :
        \A i \in DOMAIN reqs[q].data :
            (reqs[q].kind = "entities" /\ ConcreteTypeRep(reqs[q].reps[i]))
                => /\ reqs[q].data[i] = NullResult
                   /\ Len(ErrorsAt(reqs[q], i)) = 1
                   /\ ErrorsAt(reqs[q], i)[1].message =
                         ErrUnknownInterface(reqs[q].reps[i].typename.s)

\* C14's case: a finished one-item batch asks for __typename User with an
\* identifier whose prefix is registered to the type User; the item is null.
C14_Witness ==
    \E q \in DOMAIN reqs :
        /\ reqs[q].kind = "entities"
        /\ reqs[q].pc = "done"
        /\ Len(reqs[q].data) = 1
        /\ reqs[q].reps[1].typename.s = "User"
        /\ reqs[q].reps[1].id.s = "testusr-2"
        /\ "testusr" \in DOMAIN r.prefixMap
        /\ r.prefixMap["testusr"].name = "User"
        /\ reqs[q].data[1].null
        /\ reqs[q].errors[1].message = "User is an unknown interface type"

====
